---- MODULE Spec2Model ----
(***************************************************************************)
(* A model of src/bigram_llm.py: the character codec, the batch sampler,   *)
(* the transformer forward pass, autoregressive generation and the         *)
(* training loop's mode protocol.                                          *)
(*                                                                         *)
(* Tensors of floats are modelled by their shape and, per position, by the *)
(* input tokens the value is computed from (a "view": a set of pairs       *)
(* <<0-based input position, token id>>).  The learned parameters are left *)
(* uninterpreted: two values with the same view at the same position are   *)
(* the same function of the same arguments, hence equal.                   *)
(***************************************************************************)
EXTENDS Integers, Sequences, FiniteSets, TLC

VARIABLES
  text,            \* the training text (line 26), a sequence of code points
  dpc, s, ids, back, batch,                 \* codec / batch sampler harness
  fpc, idx, targets, out, ref, pfrom,       \* forward-pass harness
  gpc, seed, max_new_tokens, gidx, k, idx_cond, \* generate
  tpc, iter, training, split, ek, printed   \* training run

vars == <<text, dpc, s, ids, back, batch,
          fpc, idx, targets, out, ref, pfrom,
          gpc, seed, max_new_tokens, gidx, k, idx_cond,
          tpc, iter, training, split, ek, printed>>

dataVars  == <<dpc, s, ids, back, batch>>
fwdVars   == <<fpc, idx, targets, out, ref, pfrom>>
genVars   == <<gpc, seed, max_new_tokens, gidx, k, idx_cond>>
trainVars == <<tpc, iter, training, split, ek, printed>>

----------------------------------------------------------------------------
(* Hyperparameters (lines 7-17).  The sizes that drive the state space are *)
(* scaled down; the widths and depths that only enter shape arithmetic     *)
(* keep the source's values.                                               *)
batchsize == 2
blocksize == 2
max_iters == 9
eval_interval == 3
eval_iters == 3
n_embd == 64
n_head == 4
n_layer == 4

(* Bounds on the inputs the harnesses enumerate. *)
NumChars == 2
MaxTextLen == 5
MaxStrLen == 2
MaxBatch == 2
MaxGenBatch == 1
MaxNewTokens == 3

Alphabet == 1..NumChars

Range(f) == {f[x] : x \in DOMAIN f}

SeqsUpTo(S, n) == UNION {[1..m -> S] : m \in 0..n}

----------------------------------------------------------------------------
(* Vocabulary codec, lines 29-36.                                          *)

RECURSIVE SortedList(_)
SortedList(S) ==
  IF S = {} THEN <<>>
  ELSE LET m == CHOOSE x \in S : \A y \in S : x <= y
       IN  <<m>> \o SortedList(S \ {m})

\* characters = sorted(list(set(text)))
characters == SortedList(Range(text))

\* vocab_size = len(characters)
vocab_size == Len(characters)

\* enumerate(characters): the pairs (i, ch), i counted from 0
Enumerate(chs) == {<<i - 1, chs[i]>> : i \in 1..Len(chs)}

EnumerateFromOne(chs) == {<<i, chs[i]>> : i \in 1..Len(chs)}

\* a dict comprehension: a later pair with the same key overrides an earlier one
DictOf(pairs, keyAt, valAt) ==
  [key \in {p[keyAt] : p \in pairs} |->
     LET mine == {p \in pairs : p[keyAt] = key}
         last == CHOOSE p \in mine : \A q \in mine : q[1] <= p[1]
     IN  last[valAt]]

s_to_i_shifted == DictOf(EnumerateFromOne(characters), 2, 1)

\* s_to_i = { ch:i for i,ch in enumerate(characters)}
s_to_i == DictOf(Enumerate(characters), 2, 1)

\* i_to_s = { i:ch for i,ch in enumerate(characters)}
i_to_s == DictOf(Enumerate(characters), 1, 2)

KeyError == [status |-> "KeyError", val |-> <<>>]

\* encode = lambda s: [s_to_i[c] for c in s]
encode(str) ==
  LET table == s_to_i
  IN  IF \A p \in 1..Len(str) : str[p] \in DOMAIN table
      THEN [status |-> "ok", val |-> [p \in 1..Len(str) |-> table[str[p]]]]
      ELSE KeyError

\* decode = lambda n : ''.join([i_to_s[i] for i in n])
decode(nums) ==
  LET table == i_to_s
  IN  IF \A p \in 1..Len(nums) : nums[p] \in DOMAIN table
      THEN [status |-> "ok", val |-> [p \in 1..Len(nums) |-> table[nums[p]]]]
      ELSE KeyError

----------------------------------------------------------------------------
(* Data set and split, lines 39-44.                                        *)

\* data = torch.tensor(encode(text)): every character of text is in the vocabulary
data == encode(text).val

\* data[a:b] with 0 <= a: Python's slice stops at the end of the sequence
PySlice(d, a, b) ==
  LET hi == IF b < Len(d) THEN b ELSE Len(d)
  IN  IF a >= hi THEN <<>> ELSE [p \in 1..(hi - a) |-> d[a + p]]

\* n = int(0.9*len(data))
n == (9 * Len(data)) \div 10

\* train = data[:n]
train == LET d == data IN PySlice(d, 0, n)

\* test = data[n:]
test == LET d == data IN PySlice(d, n, Len(d))

----------------------------------------------------------------------------
(* Batch sampler, lines 47-54.                                             *)

SplitData(sp) == IF sp = "train" THEN train ELSE test

RandintHighInclusive(d) == Len(d) - blocksize + 1

\* the exclusive upper bound given to torch.randint (line 50)
RandintHigh(d) == Len(d) - blocksize

BatchError == [status |-> "error", split |-> "", ix |-> <<>>, x |-> <<>>, y |-> <<>>]

\* torch.stack needs rows of one length
Stackable(rows) == \A a, b \in 1..Len(rows) : Len(rows[a]) = Len(rows[b])

\* lines 51-54, for the starts ix drawn at line 50
get_batch(sp, ix) ==
  LET d  == SplitData(sp)
      xs == [b \in 1..Len(ix) |-> PySlice(d, ix[b], ix[b] + blocksize)]
      ys == [b \in 1..Len(ix) |-> PySlice(d, ix[b] + 1, ix[b] + blocksize + 1)]
  IN  IF Stackable(xs) /\ Stackable(ys)
      THEN [status |-> "ok", split |-> sp, ix |-> ix, x |-> xs, y |-> ys]
      ELSE BatchError

----------------------------------------------------------------------------
(* Tensors.  ok: no exception so far; shape: the sizes; val: per position  *)
(* the view (a set of <<input position, token id>> pairs the value is      *)
(* computed from); heads: what each Head.forward call made on the way did. *)

ErrT == [ok |-> FALSE, shape |-> <<>>, val |-> <<>>, heads |-> {}]

LastDim(x) == x.shape[Len(x.shape)]

WithLastDim(x, c) == [x EXCEPT !.shape[Len(x.shape)] = c]

\* an index nn.Embedding(num, _) would also take if it wrapped negative ids
InRangeWrapped(num, i) == i \in (0 - num)..(num - 1)

\* the indices nn.Embedding(num, _) accepts; any other raises IndexError
InRange(num, i) == i \in 0..(num - 1)

\* self.token_embedding_table(idx), lines 152 and 166: (B, T) -> (B, T, n_embd)
token_embedding_table(ix) ==
  LET B == Len(ix)
      T == Len(ix[1])
  IN  IF \A b \in 1..B : \A t \in 1..T : InRange(vocab_size, ix[b][t])
      THEN [ok |-> TRUE, shape |-> <<B, T, n_embd>>,
            val |-> [b \in 1..B |-> [t \in 1..T |-> {<<t - 1, ix[b][t]>>}]],
            heads |-> {}]
      ELSE ErrT

\* self.position_embedding_table(torch.arange(T)), lines 154 and 168: -> (T, n_embd)
position_embedding_table(T) ==
  IF \A p \in 0..(T - 1) : InRange(blocksize, p)
  THEN [ok |-> TRUE, shape |-> <<T, n_embd>>, val |-> [t \in 1..T |-> {}],
        heads |-> {}]
  ELSE ErrT

\* token_embd + position_embd (line 169): (B, T, C) + (T, C), broadcast over B
AddPos(a, p) ==
  IF a.ok /\ p.ok /\ a.shape[2] = p.shape[1] /\ a.shape[3] = p.shape[2]
  THEN [a EXCEPT !.val = [b \in 1..a.shape[1] |->
                            [t \in 1..a.shape[2] |-> a.val[b][t] \cup p.val[t]]]]
  ELSE ErrT

\* x + f(x) (lines 140-141): two tensors of one shape
Add(a, c) ==
  IF a.ok /\ c.ok /\ a.shape = c.shape
  THEN [a EXCEPT !.val = [b \in 1..a.shape[1] |->
                            [t \in 1..a.shape[2] |-> a.val[b][t] \cup c.val[b][t]]],
                 !.heads = a.heads \cup c.heads]
  ELSE ErrT

\* nn.Linear(inF, outF): position-wise, the last dimension must be inF
Linear(inF, outF, x) ==
  IF x.ok /\ LastDim(x) = inF THEN WithLastDim(x, outF) ELSE ErrT

\* nn.LayerNorm(c): position-wise over a last dimension of size c
LayerNorm(c, x) == IF x.ok /\ LastDim(x) = c THEN x ELSE ErrT

\* nn.ReLU and nn.Dropout(dropout) with dropout = 0.0 (line 17): position-wise
ReLU(x) == x
Dropout(x) == x

----------------------------------------------------------------------------
(* Head, lines 74-97.                                                      *)

tril_strict == [i \in 0..(blocksize - 1), j \in 0..(blocksize - 1) |->
                  IF j < i THEN 1 ELSE 0]

tril_ones == [i \in 0..(blocksize - 1), j \in 0..(blocksize - 1) |-> 1]

\* torch.tril(torch.ones(blocksize, blocksize)), line 81
tril == [i \in 0..(blocksize - 1), j \in 0..(blocksize - 1) |->
           IF j <= i THEN 1 ELSE 0]

\* self.tril[:T, :T]: the slice stops at blocksize
TrilSize(T) == IF T < blocksize THEN T ELSE blocksize

\* masked_fill broadcasts an (m, m) mask over (B, T, T): m = T, or m = 1
Broadcastable(m, T) == m = T \/ m = 1

\* whether wei[_, i, j] is filled with -inf: self.tril[:T, :T] == 0 at (i, j)
Masked(T, i, j) ==
  LET m == TrilSize(T)
  IN  IF m = T THEN tril[i, j] = 0 ELSE tril[0, 0] = 0

\* the d of the factor d ** -0.5 at line 90: C of B,T,C = x.shape (line 86)
ScaleDim(C, head_size) == C

\* Head(head_size).forward(x)
Head_forward(head_size, x) ==
  IF ~x.ok THEN ErrT
  ELSE
    LET B == x.shape[1]
        T == x.shape[2]
        C == x.shape[3]
        key == Linear(n_embd, head_size, x)
        kept == [i \in 0..(T - 1) |-> {j \in 0..(T - 1) : ~Masked(T, i, j)}]
    IN  IF ~key.ok \/ ~Broadcastable(TrilSize(T), T) THEN ErrT
        ELSE [ok |-> TRUE, shape |-> <<B, T, head_size>>,
              \* wei[b, i, j] is computed from x[b, i] and x[b, j] where kept and
              \* is exactly 0 after the softmax where masked; out = wei @ v
              val |-> [b \in 1..B |-> [t \in 1..T |->
                        IF kept[t - 1] = {} THEN {}
                        ELSE x.val[b][t] \cup
                             UNION {x.val[b][j + 1] : j \in kept[t - 1]}]],
              heads |-> {[head_size |-> head_size,
                          scale |-> ScaleDim(C, head_size),
                          T |-> T,
                          att |-> kept]}]

\* MultiHeadAttention(num_heads, head_size).forward(x), lines 100-111
MultiHeadAttention(num_heads, head_size, x) ==
  LET h == Head_forward(head_size, x)
      \* torch.cat of num_heads head outputs along the last dimension
      cat == IF h.ok THEN WithLastDim(h, num_heads * head_size) ELSE ErrT
  IN  Dropout(Linear(n_embd, n_embd, cat))

\* FeedFoward(n_embd).forward(x), lines 114-126
FeedFoward(c, x) ==
  Dropout(Linear(4 * c, c, ReLU(Linear(c, 4 * c, x))))

\* Block(n_embd, n_head).forward(x), lines 129-142
Block(c, heads, x) ==
  LET head_size == c \div heads
      x1 == Add(x, MultiHeadAttention(heads, head_size, LayerNorm(c, x)))
  IN  Add(x1, FeedFoward(c, LayerNorm(c, x1)))

\* nn.Sequential of n_layer Blocks, line 156
RECURSIVE blocks(_, _)
blocks(layers, x) ==
  IF layers = 0 THEN x ELSE blocks(layers - 1, Block(n_embd, n_head, x))

----------------------------------------------------------------------------
(* Bigram_Language_Model.forward, lines 162-183.                           *)

None == <<>>

FwdError == [status |-> "error", shape |-> <<>>, val |-> <<>>, loss |-> "none",
             heads |-> {}]

NoResult == [status |-> "none", shape |-> <<>>, val |-> <<>>, loss |-> "none",
             heads |-> {}]

Flatten(m) ==
  LET B == Len(m)
      T == Len(m[1])
  IN  [q \in 1..(B * T) |-> m[((q - 1) \div T) + 1][((q - 1) % T) + 1]]

forward(ix, tg) ==
  LET B == Len(ix)
      T == Len(ix[1])
      token_embd == token_embedding_table(ix)
      position_embd == position_embedding_table(T)
      x0 == AddPos(token_embd, position_embd)
      x1 == blocks(n_layer, x0)
      x2 == LayerNorm(n_embd, x1)
      logits == Linear(n_embd, vocab_size, x2)
  IN  IF ~logits.ok THEN FwdError
      ELSE IF tg = None
      THEN [status |-> "ok", shape |-> logits.shape, val |-> logits.val,
            loss |-> "none", heads |-> logits.heads]
      ELSE
        LET C  == logits.shape[3]
            l2 == Flatten(logits.val)           \* logits.view(B*T, C)
            t2 == Flatten(tg)                   \* targets.view(B*T)
        IN  \* F.cross_entropy: one target per row, each a class index
            IF Len(t2) = Len(l2) /\ \A q \in 1..Len(t2) : t2[q] \in 0..(C - 1)
            THEN [status |-> "ok", shape |-> <<B * T, C>>, val |-> l2,
                  loss |-> "scalar", heads |-> logits.heads]
            ELSE FwdError

----------------------------------------------------------------------------
(* Bigram_Language_Model.generate, lines 185-199.                          *)

NoCrop(row) == row

\* row[-blocksize:], line 188: the last blocksize entries, or all of a shorter row
Crop(row) ==
  PySlice(row, IF Len(row) > blocksize THEN Len(row) - blocksize ELSE 0, Len(row))

CatOntoCropped(m, nxt) == [b \in 1..Len(m) |-> Append(Crop(m[b]), nxt[b])]

\* torch.cat((idx, idx_next), dim=1), line 198
Cat(m, nxt) == [b \in 1..Len(m) |-> Append(m[b], nxt[b])]

----------------------------------------------------------------------------
(* Training run, lines 57-69 and 201-227.                                  *)

model_train_missing == training

\* nn.Module.train() sets self.training (line 68)
model_train == TRUE

\* nn.Module.eval() clears it (line 60)
model_eval == FALSE

\* line 212
EvalDue(i) == i % eval_interval = 0 \/ i = max_iters - 1

----------------------------------------------------------------------------
(* The states in which a part of the program is not under study.           *)

ScenarioText == <<1, 2>>    \* the text "ab": the vocabulary {'a','b'}

DataIdle ==
  /\ dpc = "idle" /\ s = <<>> /\ ids = KeyError /\ back = KeyError
  /\ batch = BatchError

FwdIdle ==
  /\ fpc = "idle" /\ idx = <<>> /\ targets = None /\ out = NoResult
  /\ ref = NoResult /\ pfrom = 0

GenIdle ==
  /\ gpc = "idle" /\ seed = <<>> /\ max_new_tokens = 0 /\ gidx = <<>>
  /\ k = 0 /\ idx_cond = None

TrainIdle ==
  /\ tpc = "idle" /\ iter = 0 /\ training = TRUE /\ split = "train"
  /\ ek = 0 /\ printed = <<>>

----------------------------------------------------------------------------
(* Codec and batch sampler: the script's lines 24-54 on a text.            *)

\* 1,2,..,NumChars,1,2,.. : long enough for a test split of blocksize+2 tokens
LongText == [p \in 1..(10 * blocksize + 11) |-> ((p - 1) % NumChars) + 1]

Texts == SeqsUpTo(Alphabet, MaxTextLen) \cup {LongText}

InitData ==
  /\ text \in Texts
  /\ dpc = "ready" /\ s = <<>> /\ ids = KeyError /\ back = KeyError
  /\ batch = BatchError
  /\ FwdIdle /\ GenIdle /\ TrainIdle

Encode ==
  /\ dpc = "ready"
  /\ \E str \in SeqsUpTo(Alphabet, MaxStrLen) :
       /\ s' = str
       /\ ids' = encode(str)
  /\ dpc' = "encoded"
  /\ UNCHANGED <<text, back, batch, fwdVars, genVars, trainVars>>

Decode ==
  /\ dpc = "encoded"
  /\ ids.status = "ok"
  /\ back' = decode(ids.val)
  /\ dpc' = "decoded"
  /\ UNCHANGED <<text, s, ids, batch, fwdVars, genVars, trainVars>>

GetBatch ==
  /\ dpc = "ready"
  /\ \E sp \in {"train", "test"} :
       LET high == RandintHigh(SplitData(sp))
       IN  IF high <= 0
           THEN \* torch.randint(high, ...) with high <= 0 raises
                batch' = [BatchError EXCEPT !.split = sp]
           ELSE \E ix \in [1..batchsize -> 0..(high - 1)] :
                  batch' = [get_batch(sp, ix) EXCEPT !.split = sp]
  /\ dpc' = "batched"
  /\ UNCHANGED <<text, s, ids, back, fwdVars, genVars, trainVars>>

NextData == Encode \/ Decode \/ GetBatch

SpecData == InitData /\ [][NextData]_vars

----------------------------------------------------------------------------
(* Forward pass: model(idx, targets) on a batch, then on the same batch    *)
(* with one token changed.                                                 *)

Tokens == 0..(vocab_size - 1)

\* the ids of the vocabulary and one on either side of it
TokenDomain == (0 - 1)..vocab_size

Reverse(row) == [p \in 1..Len(row) |-> row[Len(row) + 1 - p]]

InitFwd ==
  /\ text = ScenarioText
  /\ fpc = "init"
  /\ \E B \in 1..MaxBatch : \E T \in 1..(blocksize + 1) :
       idx \in [1..B -> [1..T -> Tokens]]
  /\ targets \in {None, [b \in 1..Len(idx) |-> Reverse(idx[b])]}
  /\ out = NoResult /\ ref = NoResult /\ pfrom = 0
  /\ DataIdle /\ GenIdle /\ TrainIdle

Call ==
  /\ fpc \in {"init", "perturbed"}
  /\ out' = forward(idx, targets)
  /\ fpc' = IF fpc = "init" THEN "ran" ELSE "reran"
  /\ UNCHANGED <<text, idx, targets, ref, pfrom, dataVars, genVars, trainVars>>

Perturb ==
  /\ fpc = "ran"
  /\ \E b \in 1..Len(idx) : \E t \in 1..Len(idx[1]) :
       \E v \in TokenDomain \ {idx[b][t]} :
         /\ idx' = [idx EXCEPT ![b][t] = v]
         /\ pfrom' = t - 1
  /\ ref' = out
  /\ fpc' = "perturbed"
  /\ UNCHANGED <<text, targets, out, dataVars, genVars, trainVars>>

NextFwd == Call \/ Perturb

SpecFwd == InitFwd /\ [][NextFwd]_vars

----------------------------------------------------------------------------
(* generate(seed, max_new_tokens) on a non-empty seed.                     *)

InitGen ==
  /\ text = ScenarioText
  /\ gpc = "loop"
  /\ \E B \in 1..MaxGenBatch : \E L \in 1..(blocksize + 1) :
       seed \in [1..B -> [1..L -> Tokens]]
  /\ max_new_tokens \in 0..MaxNewTokens
  /\ gidx = seed
  /\ k = 0
  /\ idx_cond = None
  /\ DataIdle /\ FwdIdle /\ TrainIdle

\* one iteration of the loop at line 186
GenerateStep ==
  /\ gpc = "loop"
  /\ k < max_new_tokens
  /\ LET cond == [b \in 1..Len(gidx) |-> Crop(gidx[b])]
         r    == forward(cond, None)
     IN  /\ idx_cond' = cond
         /\ IF r.status = "ok"
            THEN \* logits[:, -1, :], softmax, multinomial: one class per row
                 /\ \E idx_next \in [1..Len(gidx) -> 0..(r.shape[3] - 1)] :
                      gidx' = Cat(gidx, idx_next)
                 /\ k' = k + 1
                 /\ gpc' = "loop"
            ELSE /\ gpc' = "error"
                 /\ UNCHANGED <<gidx, k>>
  /\ UNCHANGED <<text, seed, max_new_tokens, dataVars, fwdVars, trainVars>>

\* return idx, line 199
GenerateReturn ==
  /\ gpc = "loop"
  /\ k = max_new_tokens
  /\ gpc' = "done"
  /\ UNCHANGED <<text, seed, max_new_tokens, gidx, k, idx_cond,
                 dataVars, fwdVars, trainVars>>

NextGen == GenerateStep \/ GenerateReturn

SpecGen == InitGen /\ [][NextGen]_vars

----------------------------------------------------------------------------
(* The training run, lines 201-227; estimate_loss, lines 57-69.            *)

InitTrain ==
  /\ text = ScenarioText
  \* a constructed nn.Module is in training mode (line 201)
  /\ tpc = "for" /\ iter = 0 /\ training = TRUE /\ split = "train"
  /\ ek = 0 /\ printed = <<>>
  /\ DataIdle /\ FwdIdle /\ GenIdle

restOfTrain == <<text, dataVars, fwdVars, genVars>>

\* for iter in range(max_iters), line 209
LoopHead ==
  /\ tpc = "for"
  /\ tpc' = IF iter < max_iters THEN "if" ELSE "generate"
  /\ UNCHANGED <<iter, training, split, ek, printed>>
  /\ UNCHANGED restOfTrain

\* line 212
IfEval ==
  /\ tpc = "if"
  /\ tpc' = IF EvalDue(iter) THEN "estimate_loss" ELSE "train_forward"
  /\ UNCHANGED <<iter, training, split, ek, printed>>
  /\ UNCHANGED restOfTrain

\* model.eval(), line 60, and the entry to the loops at lines 61-63
ModelEval ==
  /\ tpc = "estimate_loss"
  /\ training' = model_eval
  /\ split' = "train"
  /\ ek' = 0
  /\ tpc' = "eval_for"
  /\ UNCHANGED <<iter, printed>>
  /\ UNCHANGED restOfTrain

\* for split in [...], for k in range(eval_iters), lines 61-63 and 67
EvalFor ==
  /\ tpc = "eval_for"
  /\ IF ek < eval_iters
     THEN tpc' = "eval_forward" /\ UNCHANGED <<split, ek>>
     ELSE IF split = "train"
          THEN split' = "test" /\ ek' = 0 /\ tpc' = "eval_for"
          ELSE tpc' = "model_train" /\ UNCHANGED <<split, ek>>
  /\ UNCHANGED <<iter, training, printed>>
  /\ UNCHANGED restOfTrain

\* X, Y = get_batch(split); logits, loss = model(X, Y), lines 64-66
EvalForward ==
  /\ tpc = "eval_forward"
  /\ ek' = ek + 1
  /\ tpc' = "eval_for"
  /\ UNCHANGED <<iter, training, split, printed>>
  /\ UNCHANGED restOfTrain

\* model.train(); return out, lines 68-69
ModelTrain ==
  /\ tpc = "model_train"
  /\ training' = model_train
  /\ tpc' = "print"
  /\ UNCHANGED <<iter, split, ek, printed>>
  /\ UNCHANGED restOfTrain

\* print(f"step {iter}: ..."), line 214
PrintLosses ==
  /\ tpc = "print"
  /\ printed' = Append(printed, iter)
  /\ tpc' = "train_forward"
  /\ UNCHANGED <<iter, training, split, ek>>
  /\ UNCHANGED restOfTrain

\* get_batch('train'); model(x_batch, y_batch), lines 217-220
TrainForward ==
  /\ tpc = "train_forward"
  /\ tpc' = "backward"
  /\ UNCHANGED <<iter, training, split, ek, printed>>
  /\ UNCHANGED restOfTrain

\* optimizer.zero_grad(); loss.backward(), lines 221-222
Backward ==
  /\ tpc = "backward"
  /\ tpc' = "step"
  /\ UNCHANGED <<iter, training, split, ek, printed>>
  /\ UNCHANGED restOfTrain

\* optimizer.step(), line 223, and the loop's next iteration
OptimizerStep ==
  /\ tpc = "step"
  /\ iter' = iter + 1
  /\ tpc' = "for"
  /\ UNCHANGED <<training, split, ek, printed>>
  /\ UNCHANGED restOfTrain

\* model.generate(context, max_new_tokens=2000), lines 226-227
Generate ==
  /\ tpc = "generate"
  /\ tpc' = "end"
  /\ UNCHANGED <<iter, training, split, ek, printed>>
  /\ UNCHANGED restOfTrain

NextTrain ==
  \/ LoopHead \/ IfEval \/ ModelEval \/ EvalFor \/ EvalForward \/ ModelTrain
  \/ PrintLosses \/ TrainForward \/ Backward \/ OptimizerStep \/ Generate

SpecTrain == InitTrain /\ [][NextTrain]_vars

----------------------------------------------------------------------------
(* Properties.                                                             *)

Ran == fpc \in {"ran", "reran"}

\* the logits of row b (1-based) at position t (1-based) in a forward result
LogitAt(r, b, t) ==
  IF Len(r.shape) = 3 THEN r.val[b][t] ELSE r.val[(b - 1) * Len(idx[1]) + t]

\* C1: two forward passes on batches that differ only at a position j give the
\* same logits at every position before j, and the logits at position t are
\* computed from the tokens at positions 0..t only.
Causality ==
  (fpc = "reran" /\ ref.status = "ok" /\ out.status = "ok") =>
    \A b \in 1..Len(idx) : \A t \in 1..Len(idx[1]) :
      /\ (t - 1 < pfrom => LogitAt(out, b, t) = LogitAt(ref, b, t))
      /\ \A pr \in LogitAt(out, b, t) : pr[1] <= t - 1

CausalityWitness ==
  /\ fpc = "reran" /\ ref.status = "ok" /\ out.status = "ok"
  /\ pfrom > 0
  /\ \E b \in 1..Len(idx) : LogitAt(out, b, pfrom + 1) # LogitAt(ref, b, pfrom + 1)

\* C2: generate returns len(seed) + max_new_tokens entries per row, the first
\* len(seed) of them the seed; after k iterations a row has len(seed) + k entries,
\* and an iteration appends one entry and changes none.
GenerateLengthInv ==
  /\ gpc # "error"
  /\ (gpc = "done" => k = max_new_tokens)
  /\ Len(gidx) = Len(seed)
  /\ \A b \in 1..Len(seed) :
       /\ Len(gidx[b]) = Len(seed[b]) + k
       /\ SubSeq(gidx[b], 1, Len(seed[b])) = seed[b]

GenerateAppendsOne ==
  gidx' # gidx =>
    /\ k' = k + 1
    /\ \A b \in 1..Len(gidx) :
         /\ Len(gidx'[b]) = Len(gidx[b]) + 1
         /\ SubSeq(gidx'[b], 1, Len(gidx[b])) = gidx[b]

GenerateLength == [](GenerateLengthInv) /\ [][GenerateAppendsOne]_vars

GenerateLengthWitness ==
  /\ gpc = "done" /\ k = max_new_tokens /\ k >= 2
  /\ Len(gidx[1]) > blocksize + 1

\* C3: forward returns logits of shape (batch, T, vocab_size), with and
\* without targets.
LogitsShape ==
  (Ran /\ out.status = "ok") =>
    out.shape = <<Len(idx), Len(idx[1]), vocab_size>>

\* C4: every forward call of generate gets the last min(L, blocksize) tokens of
\* the sequence of length L, never more than blocksize, while the sequence grows.
ContextWindow ==
  idx_cond # None =>
    /\ gpc # "error"
    /\ \A b \in 1..Len(gidx) :
         LET prev == SubSeq(gidx[b], 1, Len(gidx[b]) - 1)
             m    == IF Len(prev) < blocksize THEN Len(prev) ELSE blocksize
         IN  /\ Len(idx_cond[b]) = m
             /\ m <= blocksize
             /\ idx_cond[b] = SubSeq(prev, Len(prev) - m + 1, Len(prev))
             /\ Len(gidx[b]) = Len(seed[b]) + k

ContextWindowWitness ==
  /\ idx_cond # None
  /\ Len(seed[1]) > blocksize
  /\ k >= 2
  /\ Len(idx_cond[1]) = blocksize

\* C5: a batch from a split of more than blocksize tokens has batchsize rows of
\* blocksize tokens, no window runs past the end, inputs are data[start + t],
\* targets data[start + t + 1], so targets are the inputs shifted by one.
BatchWindows ==
  (dpc = "batched" /\ Len(SplitData(batch.split)) > blocksize) =>
    LET d == SplitData(batch.split)
    IN  /\ batch.status = "ok"
        /\ Len(batch.x) = batchsize /\ Len(batch.y) = batchsize
        /\ \A b \in 1..batchsize :
             /\ Len(batch.x[b]) = blocksize /\ Len(batch.y[b]) = blocksize
             /\ batch.ix[b] >= 0
             /\ batch.ix[b] + blocksize < Len(d)
             /\ \A t \in 0..(blocksize - 1) :
                  /\ batch.x[b][t + 1] = d[batch.ix[b] + t + 1]
                  /\ batch.y[b][t + 1] = d[batch.ix[b] + t + 2]
                  /\ (t < blocksize - 1 => batch.y[b][t + 1] = batch.x[b][t + 2])

BatchWindowsWitness ==
  /\ dpc = "batched" /\ batch.status = "ok" /\ batch.split = "test"
  /\ batch.ix[1] # batch.ix[2]
  /\ batch.ix[1] + blocksize = Len(test) - 1

\* C6: forward on a sequence longer than blocksize, or on a token id outside
\* [0, vocab_size), ends in an error and returns no logits.
Rejects ==
  (Ran /\ (\/ Len(idx[1]) > blocksize
           \/ \E b \in 1..Len(idx) : \E t \in 1..Len(idx[1]) :
                idx[b][t] < 0 \/ idx[b][t] >= vocab_size)) =>
    (out.status = "error" /\ out.val = <<>>)

RejectsWitness ==
  /\ fpc = "reran" /\ out.status = "error" /\ ref.status = "ok"
  /\ Len(idx[1]) <= blocksize
  /\ \E b \in 1..Len(idx) : \E t \in 1..Len(idx[1]) : idx[b][t] = vocab_size

\* C7: decode(encode(str)) = str for every str over the vocabulary; the ids are
\* unique and exactly 0..vocab_size-1; encode and decode are mutually inverse.
CodecRoundTrip ==
  /\ vocab_size = Cardinality(Range(text))
  /\ DOMAIN s_to_i = Range(text)
  /\ DOMAIN i_to_s = 0..(vocab_size - 1)
  /\ {s_to_i[c] : c \in DOMAIN s_to_i} = 0..(vocab_size - 1)
  /\ \A c \in DOMAIN s_to_i : i_to_s[s_to_i[c]] = c
  /\ \A i \in DOMAIN i_to_s : s_to_i[i_to_s[i]] = i
  /\ (dpc \in {"encoded", "decoded"} /\ Range(s) \subseteq Range(text)) =>
       (ids.status = "ok" /\ Len(ids.val) = Len(s))
  /\ (dpc = "decoded" => back = [status |-> "ok", val |-> s])

CodecRoundTripWitness ==
  /\ dpc = "decoded" /\ back.status = "ok"
  /\ Len(s) >= 2 /\ s[1] # s[2]
  /\ back.val = s

\* C8: each Head scales its scores by head_size ** -0.5, head_size being
\* n_embd // n_head.
ScaledByHeadSize ==
  (Ran /\ out.status = "ok") =>
    \A h \in out.heads :
      h.head_size = n_embd \div n_head /\ h.scale = h.head_size

\* C9: for 1 <= T <= blocksize and query i < T the keys the mask leaves are
\* exactly 0..i: no row is fully masked.
CausalMask ==
  (Ran /\ out.status = "ok") =>
    /\ out.heads # {}
    /\ \A h \in out.heads :
         /\ h.T = Len(idx[1])
         /\ \A i \in 0..(h.T - 1) : h.att[i] = 0..i /\ h.att[i] # {}

CausalMaskWitness ==
  /\ Ran /\ out.status = "ok" /\ Len(idx[1]) = blocksize
  /\ \E h \in out.heads : h.att[blocksize - 1] = 0..(blocksize - 1)

\* C10: forwards inside estimate_loss run in evaluation mode, estimate_loss
\* returns in training mode, every training step of the max_iters iterations runs
\* in training mode, losses are reported at the multiples of eval_interval and
\* at the last iteration, and generation follows the last iteration.
ModeProtocol ==
  /\ (tpc = "eval_forward" => ~training)
  /\ (tpc = "print" => training)
  /\ (tpc \in {"train_forward", "backward", "step"} =>
        /\ training
        /\ iter < max_iters
        /\ (iter % eval_interval = 0 \/ iter = max_iters - 1)
             <=> (printed # <<>> /\ printed[Len(printed)] = iter))
  /\ (tpc \in {"generate", "end"} =>
        /\ iter = max_iters
        /\ Range(printed) =
             {i \in 0..(max_iters - 1) : i % eval_interval = 0 \/ i = max_iters - 1})

ModeProtocolWitness ==
  /\ tpc = "end" /\ training
  /\ Len(printed) >= 2
  /\ printed[Len(printed)] = max_iters - 1

====
